---- MODULE Spec2Model ----
(***************************************************************************)
(* The notes store of the LightningJS notes application (state/store.js):  *)
(* a single state container with the actions loadNotes, addNote,           *)
(* updateNote, deleteNote and selectNote, a synchronous subscriber         *)
(* protocol, and persistence either through an HTTP API (USE_API) or       *)
(* through localStorage.                                                   *)
(*                                                                         *)
(* JavaScript runs one synchronous segment at a time.  Every action of     *)
(* this module is one such segment: the code from an invocation (or from   *)
(* the continuation of an await) up to the next await, with every          *)
(* _setState, _emit and subscriber callback it runs.  The variable trace   *)
(* holds the events of the last segment, in the order the code produced    *)
(* them.                                                                   *)
(***************************************************************************)
EXTENDS Integers, Sequences, FiniteSets, TLC

VARIABLES
    useApi,        \* USE_API: fixed when the module is loaded
    state,         \* NotesStore._state
    subscribers,   \* NotesStore._subscribers, in insertion order
    ls,            \* localStorage[LS_KEY]
    acts,          \* the invocations of the async actions and where each stands
    started,       \* how many invocations were made
    nextUid,       \* how many ids uid() has produced
    clock,         \* the last value Date.now() returned
    trace,         \* the events of the last synchronous segment
    mockLs,        \* localStorage[LS_KEY] of services/api.js
    calls          \* the calls of the mock repository and where each stands

vars == <<useApi, state, subscribers, ls, acts, started, nextUid, clock, trace,
          mockLs, calls>>

\* the store of state/store.js does not use services/api.js
repoVars == <<mockLs, calls>>

-----------------------------------------------------------------------------
(* Bounds of the model *)

MaxActions == 2      \* invocations of async actions
MaxList == 2         \* entries of a GET /notes response
MaxClock == 1        \* Date.now() ranges over 0..MaxClock
MaxCallbacks == 5    \* distinct subscriber functions
MaxViews == 2        \* subscriber functions subscribed at a time
MaxHeld == 2         \* notes a store holds when a run begins with held notes
MaxSort == 3         \* notes a store holds when a view asks for them sorted
MaxCalls == 2        \* calls of the mock repository

-----------------------------------------------------------------------------
(* Values *)

NULL == "<null>"        \* null
ABSENT == "<absent>"    \* a field that is null or undefined in a payload
AbsentNum == -1         \* a numeric field that is null or undefined
RawBad == -3            \* a timestamp field that does not parse as a number
NaN == -2               \* Number() of such a field

defaultState ==
    [notes |-> <<>>, selectedNoteId |-> NULL, loading |-> FALSE, error |-> NULL]

NoNote ==
    [id |-> NULL, title |-> "", content |-> "", updatedAt |-> 0, createdAt |-> 0]

NoBlob == [present |-> FALSE, data |-> defaultState]

\* String(v) of a payload value: the number 1 ("#1") and the string "1" both give "1".
StrOf(v) ==
    CASE v = "#1" -> "1"
      [] v = "#2" -> "2"
      [] OTHER -> v

\* String(v ?? d)
StrOr(v, d) == IF v = ABSENT THEN StrOf(d) ELSE StrOf(v)

\* Number(v ?? d)
NumOr(v, d) ==
    IF v = AbsentNum THEN d ELSE IF v = RawBad THEN NaN ELSE v

\* faulty variant: uid() returns the same id again
UidRepeats(n) == "U1"

\* uid(): time-based prefix plus random suffix; modelled as never repeating.
Uid(n) == "U" \o ToString(n)

\* {...s, ...patch}
Merge(s, patch) ==
    [f \in DOMAIN s |-> IF f \in DOMAIN patch THEN patch[f] ELSE s[f]]

Find(notes, id) ==
    IF \E i \in 1..Len(notes) : notes[i].id = id
    THEN notes[CHOOSE i \in 1..Len(notes) :
                  notes[i].id = id /\ \A j \in 1..(i - 1) : notes[j].id # id]
    ELSE NoNote

Exists(notes, id) == \E i \in 1..Len(notes) : notes[i].id = id

Ids(notes) == {notes[i].id : i \in 1..Len(notes)}

-----------------------------------------------------------------------------
(* Payloads the backend may answer with, and arguments callers may pass *)

RawIds == {ABSENT, "1", "2"}
RawTimes == {AbsentNum}

RawNotes ==
    {[object |-> TRUE, id |-> i, title |-> ABSENT, content |-> ABSENT,
      updatedAt |-> u, createdAt |-> AbsentNum] : i \in RawIds, u \in RawTimes}

\* an array entry that is no object (null, a number, a string)
Junk ==
    [object |-> FALSE, id |-> ABSENT, title |-> ABSENT, content |-> ABSENT,
     updatedAt |-> AbsentNum, createdAt |-> AbsentNum]

\* JSON null (also what apiFetch returns when the body does not parse)
NullData ==
    [object |-> TRUE, id |-> ABSENT, title |-> ABSENT, content |-> ABSENT,
     updatedAt |-> AbsentNum, createdAt |-> AbsentNum]

RECURSIVE SeqsUpTo(_, _)
SeqsUpTo(S, n) ==
    IF n = 0 THEN {<<>>}
    ELSE LET shorter == SeqsUpTo(S, n - 1)
         IN shorter \cup {Append(s, x) : s \in {t \in shorter : Len(t) = n - 1}, x \in S}

ListEntries == {r \in RawNotes : r.id # ABSENT}
ListPayloads ==
    SeqsUpTo(ListEntries, MaxList)
        \cup {<<Junk, r>> : r \in ListEntries} \cup {<<NullData>>}

\* POST /notes answers null or a note; PUT /notes/:id answers null or a note,
\* which may carry another id than the one asked for
CreatedPayloads == {NullData} \cup {r \in RawNotes : r.id = "1"}
UpdatedPayloads == {NullData} \cup {r \in RawNotes : r.id = "2"}

\* POST /notes answered by a backend that gives every created note an id of
\* its own (or none) and may store another title than the one sent
ServerId(a) == ToString(a)
ServerTitles == {"S"}
CreatedBy(a) ==
    {NullData} \cup
    {[object |-> TRUE, id |-> i, title |-> t, content |-> ABSENT,
      updatedAt |-> AbsentNum, createdAt |-> AbsentNum] :
        i \in {ABSENT, ServerId(a)}, t \in {ABSENT} \cup ServerTitles}

ArgIds == {"1", "U1"}
ArgStrs == {ABSENT, "T"}

\* what a failed backend call throws: an Error with a message, or a value without one
Failures == {"Request failed with status 500", ""}

-----------------------------------------------------------------------------
(* The synchronous core: _setState, _emit and the subscriber callbacks.    *)
(* A world w is what a segment has made of the store so far:               *)
(*   state, subs (the Set's entries in insertion order, 0 where an entry   *)
(*   was deleted while an iteration may still be running), ls, trace, and  *)
(*   ctx (the callback whose body is running, 0 outside callbacks), and    *)
(*   exc (an exception is propagating).                                    *)

\* What the subscriber functions do when called.  They are the views of the
\* application: one only reads the snapshot, one clears the selection from
\* inside its callback, one unsubscribes itself on the first emission it gets,
\* one unsubscribes the first view, one throws.
Behaviour(c) ==
    CASE c % 5 = 1 -> "watch"
      [] c % 5 = 2 -> "select"
      [] c % 5 = 3 -> "once"
      [] c % 5 = 4 -> "kick"
      [] OTHER -> "throw"

Peer(c) == 1

Ev(kind, c, w) ==
    [ev |-> kind, cb |-> c, ctx |-> w.ctx, st |-> w.state, subs |-> w.subs, msg |-> ""]

Log(w, kind, c) == [w EXCEPT !.trace = Append(@, Ev(kind, c, w))]

\* the world at the start of a segment
Begin(op, c) ==
    Log([state |-> state, subs |-> subscribers, ls |-> ls, trace |-> <<>>, ctx |-> 0,
         exc |-> FALSE],
        op, c)

\* the world at the start of an invocation made with argument arg
BeginWith(op, c, arg) ==
    LET w == Begin(op, c)
    IN [w EXCEPT !.trace = <<[w.trace[1] EXCEPT !.msg = arg]>>]

getState(s) == [s EXCEPT !.notes = s.notes]

\* JSON.stringify of a number, read back by JSON.parse: NaN is written as null
JsonNum(x) == IF x = NaN THEN AbsentNum ELSE x

\* JSON.stringify of the notes, read back by JSON.parse: strings and finite
\* numbers come back as they were
JsonNotes(notes) ==
    [i \in 1..Len(notes) |->
        [notes[i] EXCEPT !.updatedAt = JsonNum(@), !.createdAt = JsonNum(@)]]

\* faulty variant: only the selection and the flags are persisted
writeToLocalStorageFlags(w) ==
    [w EXCEPT !.ls = [present |-> TRUE,
                      data |-> [notes |-> <<>>,
                                selectedNoteId |-> w.state.selectedNoteId,
                                loading |-> w.state.loading,
                                error |-> w.state.error]]]

\* faulty variant: the selection is written once and not again
writeToLocalStorageNotes(w) ==
    [w EXCEPT !.ls = [present |-> TRUE,
                      data |-> [notes |-> JsonNotes(w.state.notes),
                                selectedNoteId |-> IF w.ls.present
                                                   THEN w.ls.data.selectedNoteId
                                                   ELSE w.state.selectedNoteId,
                                loading |-> w.state.loading,
                                error |-> w.state.error]]]

writeToLocalStorage(w) ==
    [w EXCEPT !.ls = [present |-> TRUE,
                      data |-> [notes |-> JsonNotes(w.state.notes),
                                selectedNoteId |-> w.state.selectedNoteId,
                                loading |-> w.state.loading,
                                error |-> w.state.error]]]

\* faulty variant: the subscribers are an array and unsubscribe splices it
UnsubscribedSplice(w, c) ==
    Log([w EXCEPT !.subs = SelectSeq(@, LAMBDA x : x # c)], "unsub", c)

\* the function subscribe returns: this._subscribers.delete(fn)
Unsubscribed(w, c) ==
    Log([w EXCEPT !.subs = [i \in 1..Len(w.subs) |-> IF w.subs[i] = c THEN 0 ELSE w.subs[i]]],
        "unsub", c)

RECURSIVE EmitLoop(_, _)
RECURSIVE Callback(_, _, _)
RECURSIVE Emit(_)
RECURSIVE SetState(_, _)
RECURSIVE selectNote(_, _)

\* for (const fn of this._subscribers): a Set iterator visits the entries in
\* insertion order, those added during the iteration included, those deleted
\* before their turn excluded.
EmitLoop(w, i) ==
    IF i > Len(w.subs) \/ w.exc THEN w
    ELSE IF w.subs[i] = 0 THEN EmitLoop(w, i + 1)
    ELSE EmitLoop(Callback(w, w.subs[i], TRUE), i + 1)

\* faulty variant: no catch around the call of a subscriber
Uncaught(w) == w

\* catch (e) { console.warn(...) }: the exception a callback threw ends here
Caught(w) == [w EXCEPT !.exc = FALSE]

\* fn(this.getState()), inside try/catch
Callback(w, c, emitting) ==
    LET snap == getState(w.state)
        w1 == [w EXCEPT !.trace = Append(@, [Ev("call", c, w) EXCEPT !.st = snap]),
                        !.ctx = c]
        w2 == CASE Behaviour(c) = "select" /\ snap.selectedNoteId # NULL ->
                       selectNote(w1, NULL)
                [] Behaviour(c) = "once" /\ emitting -> Unsubscribed(w1, c)
                [] Behaviour(c) = "kick" -> Unsubscribed(w1, Peer(c))
                [] Behaviour(c) = "throw" -> [Log(w1, "threw", c) EXCEPT !.exc = TRUE]
                [] OTHER -> w1
    IN Caught([w2 EXCEPT !.ctx = w.ctx])

Emit(w) ==
    LET w1 == IF ~useApi THEN writeToLocalStorage(w) ELSE w
    IN EmitLoop(Log(w1, "emit", 0), 1)

SetState(w, patch) ==
    Emit(Log([w EXCEPT !.state = Merge(@, patch)], "set", 0))

\* faulty variant: an id that matches no record clears the selection
selectNoteOrClear(w, id) ==
    IF id = NULL \/ ~Exists(w.state.notes, id) THEN SetState(w, [selectedNoteId |-> NULL])
    ELSE SetState(w, [selectedNoteId |-> id])

\* faulty variant: a selection that succeeds clears the error
selectNoteClearsError(w, id) ==
    IF id = NULL THEN SetState(w, [selectedNoteId |-> NULL, error |-> NULL])
    ELSE IF ~Exists(w.state.notes, id) THEN SetState(w, [error |-> "Note not found"])
    ELSE SetState(w, [selectedNoteId |-> id, error |-> NULL])

selectNote(w, id) ==
    IF id = NULL THEN SetState(w, [selectedNoteId |-> NULL])
    ELSE IF ~Exists(w.state.notes, id) THEN SetState(w, [error |-> "Note not found"])
    ELSE SetState(w, [selectedNoteId |-> id])

\* _runAsync, in its three synchronous parts
MessageOf(e) == IF e # "" THEN e ELSE "Unknown error"

\* faulty variant: the entry forgets to clear the error
RunAsyncEntryKeepsError(w) == SetState(w, [loading |-> TRUE])

RunAsyncEntry(w) == SetState(w, [loading |-> TRUE, error |-> NULL])

\* faulty variant: the catch also drops the selection
RunAsyncCatchDeselects(w, e) ==
    SetState(w, [error |-> MessageOf(e), selectedNoteId |-> NULL])

RunAsyncCatch(w, e) == SetState(w, [error |-> MessageOf(e)])

\* faulty variant: the finally emits once more after _setState
RunAsyncFinallyTwice(w) == Emit(SetState(w, [loading |-> FALSE]))

\* faulty variant: loading is not reset when the action ends
RunAsyncFinallySkipped(w) == w

RunAsyncFinally(w) == SetState(w, [loading |-> FALSE])

\* the entries left in the Set when the segment ends
Live(subs) == SelectSeq(subs, LAMBDA c : c # 0)

\* the number of _emit calls the segment's own code made (not those made by
\* actions that callbacks invoked)
OwnEmits(tr) == Cardinality({k \in 1..Len(tr) : tr[k].ev = "emit" /\ tr[k].ctx = 0})

Commit(w) ==
    /\ state' = w.state
    /\ subscribers' = Live(w.subs)
    /\ ls' = w.ls
    /\ trace' = w.trace
    /\ UNCHANGED repoVars

-----------------------------------------------------------------------------
(* The invocations of the async actions.  pc is where the invocation       *)
(* stands: "io" (the request is with the backend), "failing" (its body     *)
(* threw before any request; _runAsync has not resumed yet), "merged"      *)
(* (its body returned; _runAsync has not resumed yet), "done" (its promise *)
(* settled), "rejected" (it threw before _runAsync), "lost" (the page was  *)
(* reloaded).                                                              *)

IdleAct ==
    [kind |-> "none", pc |-> "idle", id |-> NULL, title |-> "", content |-> "",
     given |-> "none", existing |-> NoNote, err |-> "", emits |-> 0, result |-> NoNote]

InFlight == {"io", "failing", "merged"}

\* what is kept of an invocation once its promise settled
Settled(act, n) == [IdleAct EXCEPT !.pc = "done", !.emits = act.emits + n]

\* what the promise of an invocation resolves to once _runAsync returned:
\* created or updated (null, written NoNote, unless the body assigned it), ok
\* (true once the body came to its end), nothing for loadNotes
Returned(act, ok) ==
    [kind |-> act.kind,
     value |-> CASE act.kind \in {"addNote", "updateNote"} ->
                        IF ok THEN act.result ELSE NoNote
                 [] act.kind = "deleteNote" -> ok
                 [] OTHER -> ABSENT]

\* the promise of invocation a resolves at the end of the segment
Resolve(w, a, ok) ==
    [w EXCEPT !.trace = Append(@, [Ev("return", a, w) EXCEPT !.msg = Returned(acts[a], ok)])]

Invoke(a, act, w) ==
    /\ started' = a
    /\ acts' = [acts EXCEPT ![a] = [act EXCEPT !.emits = OwnEmits(w.trace)]]
    /\ Commit(w)

\* a payload entry made a note (loadNotes)
Normalized(n, k, now) ==
    [id |-> StrOr(n.id, Uid(nextUid + k)),
     title |-> StrOr(n.title, ""),
     content |-> StrOr(n.content, ""),
     updatedAt |-> NumOr(n.updatedAt, now),
     createdAt |-> NumOr(n.createdAt, now)]

\* how many entries before position i take their id from uid()
RECURSIVE UidsBefore(_, _)
UidsBefore(data, i) ==
    IF i <= 1 THEN 0
    ELSE UidsBefore(data, i - 1) + (IF data[i - 1].id = ABSENT THEN 1 ELSE 0)

\* faulty variant: entries that are no objects are not filtered out
NormalizedListOfAll(data, now) ==
    [i \in 1..Len(data) |-> Normalized(data[i], UidsBefore(data, i) + 1, now)]

NormalizedList(data, now) ==
    LET objects == SelectSeq(data, LAMBDA n : n.object)
    IN [i \in 1..Len(objects) |->
            Normalized(objects[i], UidsBefore(objects, i) + 1, now)]

UidsUsed(data) ==
    LET objects == SelectSeq(data, LAMBDA n : n.object)
    IN UidsBefore(objects, Len(objects) + 1)

(* loadNotes *)

LoadNotes ==
    /\ started < MaxActions
    /\ LET a == started + 1
           w1 == RunAsyncEntry(Begin("loadNotes", a))
       IN IF ~useApi
          THEN Invoke(a, [IdleAct EXCEPT !.kind = "loadNotes", !.pc = "merged"], Emit(w1))
          ELSE Invoke(a, [IdleAct EXCEPT !.kind = "loadNotes", !.pc = "io"],
                      Log(w1, "request", a))
    /\ UNCHANGED <<useApi, nextUid, clock>>

(* addNote *)

\* faulty variant: the created note is put first
Prepended(notes, created) == <<created>> \o notes

\* [...this._state.notes, created]
Appended(notes, created) == Append(notes, created)

AddNote(title, content) ==
    /\ started < MaxActions
    /\ LET a == started + 1
           base == [title |-> StrOr(title, ""), content |-> StrOr(content, "")]
           act == [IdleAct EXCEPT !.kind = "addNote", !.title = base.title,
                                  !.content = base.content]
           w1 == RunAsyncEntry(Begin("addNote", a))
       IN IF useApi
          THEN /\ Invoke(a, [act EXCEPT !.pc = "io"], Log(w1, "request", a))
               /\ UNCHANGED <<nextUid, clock>>
          ELSE LET now == clock
                   created == [id |-> Uid(nextUid + 1), title |-> base.title,
                               content |-> base.content, createdAt |-> now,
                               updatedAt |-> now]
                   notes == Appended(w1.state.notes, created)
               IN /\ Invoke(a, [act EXCEPT !.pc = "merged", !.result = created],
                            SetState(w1, [notes |-> notes,
                                          selectedNoteId |-> created.id]))
                  /\ nextUid' = nextUid + 1
                  /\ UNCHANGED clock
    /\ UNCHANGED useApi

(* updateNote *)

\* faulty variant: no validation of the id
NeverFalsy(id) == FALSE

\* !id, for the ids callers pass: null and the empty string
Falsy(id) == id = "" \/ id = NULL

\* faulty variant: an id that matches no record is let through
MissingIgnored(notes, id) == FALSE

\* !existing, !exists: no record of notes has this id
Missing(notes, id) == ~Exists(notes, id)

\* which of updates.title and updates.content are not undefined
Given(title, content) ==
    IF title # ABSENT
    THEN (IF content # ABSENT THEN "both" ELSE "title")
    ELSE (IF content # ABSENT THEN "content" ELSE "none")

\* faulty variant: the updated record is moved to the end
ReplacedAtEnd(notes, id, updated) ==
    IF \E i \in 1..Len(notes) : notes[i].id = id
    THEN Append(SelectSeq(notes, LAMBDA n : n.id # id), updated)
    ELSE notes

\* faulty variant: a record that notes does not hold is added
ReplacedOrAdded(notes, id, updated) ==
    IF \E i \in 1..Len(notes) : notes[i].id = id
    THEN [i \in 1..Len(notes) |-> IF notes[i].id = id THEN updated ELSE notes[i]]
    ELSE Append(notes, updated)

\* this._state.notes.map(n => (n.id === id ? updated : n))
Replaced(notes, id, updated) ==
    [i \in 1..Len(notes) |-> IF notes[i].id = id THEN updated ELSE notes[i]]

UpdateNote(id, title, content) ==
    /\ started < MaxActions
    /\ LET a == started + 1 IN
       IF Falsy(id)
       THEN /\ started' = a
            /\ acts' = [acts EXCEPT ![a] = [IdleAct EXCEPT !.kind = "updateNote",
                                                           !.pc = "rejected"]]
            /\ trace' = BeginWith("updateNote", a, id).trace
            /\ UNCHANGED <<state, subscribers, ls, nextUid, clock, mockLs, calls>>
       ELSE LET w1 == RunAsyncEntry(BeginWith("updateNote", a, id))
                existing == Find(w1.state.notes, id)
                payload == [title |-> IF title # ABSENT THEN StrOf(title) ELSE existing.title,
                            content |-> IF content # ABSENT THEN StrOf(content)
                                        ELSE existing.content]
                act == [IdleAct EXCEPT !.kind = "updateNote", !.id = id,
                                       !.given = Given(title, content)]
            IN IF Missing(w1.state.notes, id)
               THEN /\ Invoke(a, [act EXCEPT !.pc = "failing", !.err = "Note not found"], w1)
                    /\ UNCHANGED <<nextUid, clock>>
               ELSE IF useApi
               THEN /\ Invoke(a, [act EXCEPT !.pc = "io", !.title = payload.title,
                                             !.content = payload.content,
                                             !.existing = existing],
                              Log(w1, "request", a))
                    /\ UNCHANGED <<nextUid, clock>>
               ELSE LET updated == [existing EXCEPT !.title = payload.title,
                                                    !.content = payload.content,
                                                    !.updatedAt = clock]
                    IN /\ Invoke(a, [act EXCEPT !.pc = "merged", !.title = payload.title,
                                                 !.content = payload.content,
                                                 !.result = updated],
                                 SetState(w1, [notes |-> Replaced(w1.state.notes, id,
                                                                  updated)]))
                       /\ UNCHANGED <<nextUid, clock>>
    /\ UNCHANGED useApi

(* deleteNote *)

\* faulty variant: the selection stays on the removed note
DeletedKeepsSelection(w, id) ==
    SetState(w, [notes |-> SelectSeq(w.state.notes, LAMBDA n : n.id # id),
                 selectedNoteId |-> w.state.selectedNoteId])

\* the merge of deleteNote: filter, then move the selection off the removed note
Deleted(w, id) ==
    LET notes == SelectSeq(w.state.notes, LAMBDA n : n.id # id)
        selectedNoteId ==
            IF w.state.selectedNoteId = id
            THEN (IF Len(notes) > 0 THEN notes[1].id ELSE NULL)
            ELSE w.state.selectedNoteId
    IN SetState(w, [notes |-> notes, selectedNoteId |-> selectedNoteId])

DeleteNote(id) ==
    /\ started < MaxActions
    /\ LET a == started + 1 IN
       IF Falsy(id)
       THEN /\ started' = a
            /\ acts' = [acts EXCEPT ![a] = [IdleAct EXCEPT !.kind = "deleteNote",
                                                           !.pc = "rejected"]]
            /\ trace' = BeginWith("deleteNote", a, id).trace
            /\ UNCHANGED <<state, subscribers, ls, mockLs, calls>>
       ELSE LET w1 == RunAsyncEntry(BeginWith("deleteNote", a, id))
                act == [IdleAct EXCEPT !.kind = "deleteNote", !.id = id]
            IN IF Missing(w1.state.notes, id)
               THEN Invoke(a, [act EXCEPT !.pc = "failing", !.err = "Note not found"], w1)
               ELSE IF useApi
               THEN Invoke(a, [act EXCEPT !.pc = "io"], Log(w1, "request", a))
               ELSE Invoke(a, [act EXCEPT !.pc = "merged"], Deleted(w1, id))
    /\ UNCHANGED <<useApi, nextUid, clock>>

(* the continuations of _runAsync *)

\* the catch and the finally of _runAsync, which run in one segment
Failed(a, e) ==
    LET w0 == Begin("failed", a)
        thrown == [w0 EXCEPT !.trace = <<[w0.trace[1] EXCEPT !.msg = e]>>]
        w == RunAsyncFinally(RunAsyncCatch(thrown, e))
    IN /\ acts' = [acts EXCEPT ![a] = Settled(acts[a], OwnEmits(w.trace))]
       /\ Commit(Resolve(w, a, FALSE))

\* the body of an action resumes with the response and merges it
\* (result is what its body assigned to created or updated)
Merged(a, w, result) ==
    /\ acts' = [acts EXCEPT ![a] = [IdleAct EXCEPT !.kind = acts[a].kind, !.pc = "merged",
                                                   !.result = result,
                                                   !.id = acts[a].id,
                                                   !.title = acts[a].title,
                                                   !.content = acts[a].content,
                                                   !.given = acts[a].given,
                                                   !.emits = acts[a].emits
                                                             + OwnEmits(w.trace)]]
    /\ Commit(w)

\* the backend call of invocation a fails: fetch rejects or the status is not 2xx
RespondError(a, e) ==
    /\ acts[a].pc = "io"
    /\ Failed(a, e)
    /\ UNCHANGED <<useApi, started, nextUid, clock>>

\* GET /notes answers 2xx with a body that is no array (or that does not parse)
RespondInvalid(a) ==
    /\ acts[a].pc = "io"
    /\ acts[a].kind = "loadNotes"
    /\ Failed(a, "Invalid response from server.")
    /\ UNCHANGED <<useApi, started, nextUid, clock>>

RespondList(a, data) ==
    /\ acts[a].pc = "io"
    /\ acts[a].kind = "loadNotes"
    /\ Merged(a, SetState(BeginWith("response", a, data),
                          [notes |-> NormalizedList(data, clock)]),
              NoNote)
    /\ nextUid' = nextUid + UidsUsed(data)
    /\ UNCHANGED <<useApi, started, clock>>

RespondCreated(a, data) ==
    /\ acts[a].pc = "io"
    /\ acts[a].kind = "addNote"
    /\ LET w == Begin("response", a)
             created == [id |-> StrOr(data.id, Uid(nextUid + 1)),
                         title |-> StrOr(data.title, acts[a].title),
                         content |-> StrOr(data.content, acts[a].content),
                         updatedAt |-> NumOr(data.updatedAt, clock),
                         createdAt |-> NumOr(data.createdAt, clock)]
             notes == Appended(w.state.notes, created)
       IN Merged(a, SetState(w, [notes |-> notes, selectedNoteId |-> created.id]), created)
    /\ nextUid' = nextUid + (IF data.id = ABSENT THEN 1 ELSE 0)
    /\ UNCHANGED <<useApi, started, clock>>

RespondUpdated(a, data) ==
    /\ acts[a].pc = "io"
    /\ acts[a].kind = "updateNote"
    /\ LET w == Begin("response", a)
             updated == [id |-> StrOr(data.id, acts[a].id),
                         title |-> StrOr(data.title, acts[a].title),
                         content |-> StrOr(data.content, acts[a].content),
                         updatedAt |-> NumOr(data.updatedAt, clock),
                         createdAt |-> NumOr(data.createdAt, acts[a].existing.createdAt)]
       IN Merged(a, SetState(w, [notes |-> Replaced(w.state.notes, acts[a].id, updated)]),
                 updated)
    /\ UNCHANGED <<useApi, started, nextUid, clock>>

RespondDeleted(a) ==
    /\ acts[a].pc = "io"
    /\ acts[a].kind = "deleteNote"
    /\ Merged(a, Deleted(Begin("response", a), acts[a].id), NoNote)
    /\ UNCHANGED <<useApi, started, nextUid, clock>>

\* the body threw before any request ('Note not found'); _runAsync resumes
Fail(a) ==
    /\ acts[a].pc = "failing"
    /\ Failed(a, acts[a].err)
    /\ UNCHANGED <<useApi, started, nextUid, clock>>

\* the body returned; _runAsync resumes in its finally and the promise settles
Complete(a) ==
    /\ acts[a].pc = "merged"
    /\ LET w == RunAsyncFinally(Begin("complete", a))
       IN /\ acts' = [acts EXCEPT ![a] = Settled(acts[a], OwnEmits(w.trace))]
          /\ Commit(Resolve(w, a, TRUE))
    /\ UNCHANGED <<useApi, started, nextUid, clock>>

(* the synchronous operations *)

\* time passes: Date.now() returns clock, which never decreases
Tick ==
    /\ clock < MaxClock
    /\ clock' = clock + 1
    /\ trace' = <<[ev |-> "tick", cb |-> 0, ctx |-> 0, st |-> state, subs |-> subscribers, msg |-> ""]>>
    /\ UNCHANGED <<useApi, state, subscribers, ls, acts, started, nextUid, mockLs, calls>>

SelectNote(id) ==
    /\ Commit(selectNote(BeginWith("selectNote", 0, id), id))
    /\ UNCHANGED <<useApi, acts, started, nextUid, clock>>

\* faulty variant: subscribe only registers the callback
SubscribeLate(c) ==
    /\ LET w0 == Begin("subscribe", c)
       IN Commit([w0 EXCEPT !.subs = IF \E i \in 1..Len(@) : @[i] = c THEN @
                                      ELSE Append(@, c)])
    /\ UNCHANGED <<useApi, acts, started, nextUid, clock>>

Subscribe(c) ==
    /\ LET w0 == Begin("subscribe", c)
           w1 == [w0 EXCEPT !.subs = IF \E i \in 1..Len(@) : @[i] = c THEN @
                                     ELSE Append(@, c)]
       IN Commit(Callback(w1, c, FALSE))
    /\ UNCHANGED <<useApi, acts, started, nextUid, clock>>

\* a view calls the function subscribe returned to it
Unsubscribe(c) ==
    /\ \E i \in 1..Len(subscribers) : subscribers[i] = c
    /\ Commit(Unsubscribed(Begin("unsubscribe", c), c))
    /\ UNCHANGED <<useApi, acts, started, nextUid, clock>>

\* the page is loaded again: the module is evaluated anew, the invocations in
\* flight and the subscribers are gone, localStorage is what was last written
initialState ==
    IF ~useApi /\ ls.present THEN Merge(defaultState, ls.data) ELSE defaultState

Reload ==
    /\ started > 0
    /\ state' = initialState
    /\ subscribers' = <<>>
    /\ acts' = [a \in DOMAIN acts |->
                   IF acts[a].pc = "idle" THEN acts[a] ELSE [IdleAct EXCEPT !.pc = "lost"]]
    /\ trace' = <<[ev |-> "reload", cb |-> 0, ctx |-> 0, st |-> initialState,
                   subs |-> <<>>, msg |-> ""]>>
    /\ UNCHANGED <<useApi, ls, started, nextUid, clock, mockLs, calls>>

-----------------------------------------------------------------------------
(* The mock repository of services/api.js: list, create, patch and remove   *)
(* over one blob of localStorage, each after a delay.                        *)

\* new Date().toISOString()
Iso(t) == "t" \o ToString(t)

DEFAULT_SEED ==
    <<[id |-> "1", title |-> "Welcome to Notes", content |-> "first",
       updatedAt |-> Iso(0), createdAt |-> Iso(0)],
      [id |-> "2", title |-> "Second note", content |-> "second",
       updatedAt |-> Iso(0), createdAt |-> Iso(0)]>>

NoRecord == [id |-> NULL, title |-> "", content |-> "", updatedAt |-> "", createdAt |-> ""]

\* localStorage.getItem(LS_KEY): nothing (or the empty string), a text that
\* parses to an array, a text that parses to something else, a text that
\* does not parse
NoMock == [kind |-> "absent", notes |-> <<>>]

\* a patch object: the fields it has (ABSENT where it has none)
NoPatch == [id |-> ABSENT, title |-> ABSENT, content |-> ABSENT, createdAt |-> ABSENT]

IdleCall ==
    [op |-> "none", pc |-> "idle", id |-> NULL, payload |-> NoPatch, err |-> "",
     result |-> NoRecord, listed |-> <<>>]

NoCalls == [c \in 1..MaxCalls |-> IdleCall]

\* what localStorage does during one body: read is FALSE when getItem throws,
\* write is FALSE when setItem throws (storage full or disabled)
StorageOutcomes == [read : BOOLEAN, write : BOOLEAN]

Works == [read |-> TRUE, write |-> TRUE]

\* the blob after localStorage.setItem(LS_KEY, JSON.stringify(notes)) went through
setItem(notes) == [kind |-> "array", notes |-> notes]

\* writeStore: the blob it leaves; a setItem that throws is caught and ignored
writeStore(blob, notes, io) == IF io.write THEN setItem(notes) ELSE blob

\* faulty variant: an array without notes is seeded again
readStoreReseeds(blob, io) ==
    IF ~io.read
    THEN [notes |-> DEFAULT_SEED, blob |-> blob]
    ELSE CASE blob.kind = "array" /\ blob.notes # <<>> -> [notes |-> blob.notes, blob |-> blob]
           [] blob.kind = "garbage" -> [notes |-> DEFAULT_SEED, blob |-> blob]
           [] OTHER -> [notes |-> DEFAULT_SEED,
                        blob |-> IF io.write THEN setItem(DEFAULT_SEED) ELSE blob]

\* readStore: the notes it returns and the blob it leaves. Whatever throws
\* inside its try block (getItem, JSON.parse of a garbage blob, the setItem
\* of the seed) ends in the catch, which returns a copy of the seed
readStore(blob, io) ==
    IF ~io.read
    THEN [notes |-> DEFAULT_SEED, blob |-> blob]
    ELSE CASE blob.kind = "array" -> [notes |-> blob.notes, blob |-> blob]
           [] blob.kind = "garbage" -> [notes |-> DEFAULT_SEED, blob |-> blob]
           [] OTHER -> [notes |-> DEFAULT_SEED,
                        blob |-> IF io.write THEN setItem(DEFAULT_SEED) ELSE blob]

\* faulty variant: an id that is not found is taken for the first note
findIndexOrFirst(notes, id) ==
    IF \E i \in 1..Len(notes) : notes[i].id = id
    THEN CHOOSE i \in 1..Len(notes) :
             notes[i].id = id /\ \A j \in 1..(i - 1) : notes[j].id # id
    ELSE IF Len(notes) > 0 THEN 1 ELSE 0

\* notes.findIndex((n) => n.id === id), counted from 1; 0 where JavaScript gives -1
findIndex(notes, id) ==
    IF \E i \in 1..Len(notes) : notes[i].id = id
    THEN CHOOSE i \in 1..Len(notes) :
             notes[i].id = id /\ \A j \in 1..(i - 1) : notes[j].id # id
    ELSE 0

\* { ...notes[idx], ...(payload || {}), updatedAt: now }
Patched(note, payload, now) ==
    [id |-> IF payload.id # ABSENT THEN payload.id ELSE note.id,
     title |-> IF payload.title # ABSENT THEN payload.title ELSE note.title,
     content |-> IF payload.content # ABSENT THEN payload.content ELSE note.content,
     updatedAt |-> now,
     createdAt |-> IF payload.createdAt # ABSENT THEN payload.createdAt ELSE note.createdAt]

\* the body of mockRepo.patch after the delay: the blob it leaves, the
\* message of the error it throws ("" when it returns) and what it returns
patch(blob, id, payload, now, io) ==
    IF Falsy(id)
    THEN [blob |-> blob, err |-> "Note ID is required", result |-> NoRecord, listed |-> <<>>]
    ELSE LET read == readStore(blob, io)
             idx == findIndex(read.notes, id)
         IN IF idx = 0
            THEN [blob |-> read.blob, err |-> "Note not found", result |-> NoRecord,
                  listed |-> <<>>]
            ELSE LET updated == Patched(read.notes[idx], payload, now)
                 IN [blob |-> writeStore(read.blob, [read.notes EXCEPT ![idx] = updated], io),
                     err |-> "", result |-> updated, listed |-> <<>>]

\* the body of mockRepo.remove after the delay
remove(blob, id, io) ==
    IF Falsy(id)
    THEN [blob |-> blob, err |-> "Note ID is required", result |-> NoRecord, listed |-> <<>>]
    ELSE LET read == readStore(blob, io)
             idx == findIndex(read.notes, id)
         IN IF idx = 0
            THEN [blob |-> read.blob, err |-> "Note not found", result |-> NoRecord,
                  listed |-> <<>>]
            ELSE [blob |-> writeStore(read.blob,
                                      SubSeq(read.notes, 1, idx - 1)
                                          \o SubSeq(read.notes, idx + 1, Len(read.notes)),
                                      io),
                  err |-> "", result |-> read.notes[idx], listed |-> <<>>]

\* the body of mockRepo.list after the delay: shallow copies of what readStore gives
list(blob, io) ==
    LET read == readStore(blob, io)
    IN [blob |-> read.blob, err |-> "", result |-> NoRecord, listed |-> read.notes]

\* generateId of call c: the time and a random suffix, taken as distinct for
\* every call
generateId(c) == "G" \o ToString(c)

\* faulty variant: the new note is written alone
UnshiftedAlone(notes, newNote) == <<newNote>>

\* notes.unshift(newNote)
Unshifted(notes, newNote) == <<newNote>> \o notes

\* the body of mockRepo.create after the delay
create(blob, payload, now, id, io) ==
    LET read == readStore(blob, io)
        newNote == [id |-> id,
                    title |-> IF payload.title # ABSENT THEN payload.title ELSE "Untitled",
                    content |-> IF payload.content # ABSENT THEN payload.content ELSE "",
                    updatedAt |-> now,
                    createdAt |-> now]
    IN [blob |-> writeStore(read.blob, Unshifted(read.notes, newNote), io),
        err |-> "", result |-> newNote, listed |-> <<>>]

\* mockRepo.list() is called: it waits for the delay
CallList ==
    /\ \E c \in 1..MaxCalls :
          /\ calls[c].pc = "idle"
          /\ \A b \in 1..(c - 1) : calls[b].pc # "idle"
          /\ calls' = [calls EXCEPT ![c] = [IdleCall EXCEPT !.op = "list", !.pc = "waiting"]]
    /\ UNCHANGED <<useApi, state, subscribers, ls, acts, started, nextUid, clock, trace,
                   mockLs>>

\* mockRepo.create(payload) is called: it waits for the delay
CallCreate(payload) ==
    /\ \E c \in 1..MaxCalls :
          /\ calls[c].pc = "idle"
          /\ \A b \in 1..(c - 1) : calls[b].pc # "idle"
          /\ calls' = [calls EXCEPT ![c] = [IdleCall EXCEPT !.op = "create", !.pc = "waiting",
                                                            !.payload = payload]]
    /\ UNCHANGED <<useApi, state, subscribers, ls, acts, started, nextUid, clock, trace,
                   mockLs>>

\* mockRepo.patch(id, payload) is called: it waits for the delay
CallPatch(id, payload) ==
    /\ \E c \in 1..MaxCalls :
          /\ calls[c].pc = "idle"
          /\ \A b \in 1..(c - 1) : calls[b].pc # "idle"
          /\ calls' = [calls EXCEPT ![c] = [IdleCall EXCEPT !.op = "patch", !.pc = "waiting",
                                                            !.id = id, !.payload = payload]]
    /\ UNCHANGED <<useApi, state, subscribers, ls, acts, started, nextUid, clock, trace,
                   mockLs>>

\* mockRepo.remove(id) is called: it waits for the delay
CallRemove(id) ==
    /\ \E c \in 1..MaxCalls :
          /\ calls[c].pc = "idle"
          /\ \A b \in 1..(c - 1) : calls[b].pc # "idle"
          /\ calls' = [calls EXCEPT ![c] = [IdleCall EXCEPT !.op = "remove", !.pc = "waiting",
                                                            !.id = id]]
    /\ UNCHANGED <<useApi, state, subscribers, ls, acts, started, nextUid, clock, trace,
                   mockLs>>

\* the delay of call c is over: its body runs to its end and its promise settles
\* while localStorage behaves as io says
AfterDelay(c, io) ==
    /\ calls[c].pc = "waiting"
    /\ LET out == CASE calls[c].op = "patch" ->
                          patch(mockLs, calls[c].id, calls[c].payload, Iso(clock), io)
                    [] calls[c].op = "remove" -> remove(mockLs, calls[c].id, io)
                    [] calls[c].op = "create" ->
                          create(mockLs, calls[c].payload, Iso(clock), generateId(c), io)
                    [] OTHER -> list(mockLs, io)
       IN /\ mockLs' = out.blob
          /\ calls' = [calls EXCEPT ![c].pc = IF out.err = "" THEN "resolved" ELSE "rejected",
                                    ![c].err = out.err,
                                    ![c].result = out.result,
                                    ![c].listed = out.listed]
    /\ UNCHANGED <<useApi, state, subscribers, ls, acts, started, nextUid, clock, trace>>

-----------------------------------------------------------------------------

Init ==
    /\ useApi \in BOOLEAN
    /\ state = defaultState
    /\ subscribers = <<>>
    /\ ls = NoBlob
    /\ acts = [a \in 1..MaxActions |-> IdleAct]
    /\ started = 0
    /\ nextUid = 0
    /\ clock = 0
    /\ trace = <<[ev |-> "init", cb |-> 0, ctx |-> 0, st |-> defaultState, subs |-> <<>>, msg |-> ""]>>
    /\ mockLs = NoMock
    /\ calls = NoCalls

Respond(a) ==
    \/ \E e \in Failures : RespondError(a, e)
    \/ RespondInvalid(a)
    \/ \E data \in ListPayloads : RespondList(a, data)
    \/ \E data \in CreatedPayloads : RespondCreated(a, data)
    \/ \E data \in UpdatedPayloads : RespondUpdated(a, data)
    \/ RespondDeleted(a)

Start ==
    \/ LoadNotes
    \/ AddNote("T", ABSENT)
    \/ \E id \in ArgIds \cup {NULL} : UpdateNote(id, "T2", ABSENT)
    \/ \E id \in ArgIds \cup {NULL} : DeleteNote(id)

\* the store with one view that only reads
Next ==
    \/ Start
    \/ \E a \in 1..MaxActions : Respond(a)
    \/ \E a \in 1..MaxActions : Fail(a)
    \/ \E a \in 1..MaxActions : Complete(a)
    \/ \E id \in ArgIds \cup {NULL} : SelectNote(id)
    \/ Subscribe(1)
    \/ Unsubscribe(1)
    \/ Tick
    \/ Reload

Spec == Init /\ [][Next]_vars

\* the action protocol alone, under the eyes of one view that only reads
InitRun ==
    /\ useApi \in BOOLEAN
    /\ state = defaultState
    /\ subscribers = <<1>>
    /\ ls = NoBlob
    /\ acts = [a \in 1..MaxActions |-> IdleAct]
    /\ started = 0
    /\ nextUid = 0
    /\ clock = 0
    /\ trace = <<[ev |-> "init", cb |-> 0, ctx |-> 0, st |-> defaultState, subs |-> <<1>>, msg |-> ""]>>
    /\ mockLs = NoMock
    /\ calls = NoCalls

NextRun ==
    \/ Start
    \/ \E a \in 1..MaxActions : Respond(a)
    \/ \E a \in 1..MaxActions : Fail(a)
    \/ \E a \in 1..MaxActions : Complete(a)
    \/ \E id \in {NULL, "1"} : SelectNote(id)

SpecRun == InitRun /\ [][NextRun]_vars

\* what the event loop owes the actions in flight: the backend answers every
\* request and a continuation that is ready runs
\* the backend answers: a failure, a body that is no array, a list of no or
\* one note, a created or updated note or null, a deletion done
Answer(a) ==
    \/ \E e \in Failures : RespondError(a, e)
    \/ RespondInvalid(a)
    \/ \E data \in {d \in ListPayloads : Len(d) <= 1} : RespondList(a, data)
    \/ \E data \in CreatedPayloads : RespondCreated(a, data)
    \/ \E data \in UpdatedPayloads : RespondUpdated(a, data)
    \/ RespondDeleted(a)

Continue == \E a \in 1..MaxActions : Answer(a) \/ Fail(a) \/ Complete(a)

\* Continue is enabled exactly when an invocation is in flight: a request can
\* always be answered with a failure, and Fail and Complete have no other guard
\* than their pc; each of them changes acts
Busy == \E a \in 1..MaxActions : acts[a].pc \in InFlight

\* weak fairness of Continue, that is WF_vars(Continue), with
\* ENABLED <<Continue>>_vars written out as Busy
Fairness == []<>(~Busy) \/ []<><<Continue>>_vars

\* the async actions alone, from invocation to settlement
StartLive ==
    \/ LoadNotes
    \/ AddNote("T", ABSENT)
    \/ \E id \in {NULL, "U1"} : UpdateNote(id, "T2", ABSENT)
    \/ \E id \in {NULL, "U1"} : DeleteNote(id)

NextLive == StartLive \/ Continue

SpecLive == InitRun /\ [][NextLive]_vars /\ Fairness

\* addNote alone, in any overlap, with a backend that assigns distinct ids
NextAdd ==
    \/ AddNote("T", ABSENT)
    \/ AddNote(ABSENT, "T")
    \/ \E a \in 1..MaxActions : \E data \in CreatedBy(a) : RespondCreated(a, data)
    \/ \E a \in 1..MaxActions : \E e \in Failures : RespondError(a, e)
    \/ \E a \in 1..MaxActions : Complete(a)

SpecAdd == Init /\ [][NextAdd]_vars

\* a store that already holds notes: loaded from the backend, or restored
\* from localStorage where an earlier session created them
HeldNotes ==
    [i \in 1..MaxHeld |->
        [id |-> IF useApi THEN ToString(i) ELSE Uid(i),
         title |-> "A", content |-> "B", updatedAt |-> 0, createdAt |-> 0]]

InitHeld ==
    /\ useApi \in BOOLEAN
    /\ \E sel \in 0..MaxHeld :
          state = [defaultState EXCEPT
                      !.notes = HeldNotes,
                      !.selectedNoteId = IF sel = 0 THEN NULL ELSE HeldNotes[sel].id]
    /\ subscribers = <<>>
    /\ ls = IF useApi THEN NoBlob ELSE [present |-> TRUE, data |-> state]
    /\ acts = [a \in 1..MaxActions |-> IdleAct]
    /\ started = 0
    /\ nextUid = IF useApi THEN 0 ELSE MaxHeld
    /\ clock = 0
    /\ trace = <<[ev |-> "init", cb |-> 0, ctx |-> 0, st |-> state, subs |-> <<>>, msg |-> ""]>>
    /\ mockLs = NoMock
    /\ calls = NoCalls

\* PUT /notes/:id answered by a backend that stores what it is sent and
\* answers with nothing or with the stored record
UpdatedBy(a) ==
    {NullData,
     [object |-> TRUE, id |-> acts[a].id, title |-> acts[a].title,
      content |-> acts[a].content, updatedAt |-> AbsentNum, createdAt |-> AbsentNum]}

\* updates of one held note, each giving only a title or only a content, in
\* any overlap, all of them succeeding
NextUpd ==
    \/ UpdateNote(HeldNotes[1].id, "T2", ABSENT)
    \/ UpdateNote(HeldNotes[1].id, ABSENT, "C2")
    \/ \E a \in 1..MaxActions : \E data \in UpdatedBy(a) : RespondUpdated(a, data)
    \/ \E a \in 1..MaxActions : Complete(a)
    \/ Tick

SpecUpd == InitHeld /\ [][NextUpd]_vars

\* GET /notes answered with one note whose timestamps the backend set from
\* its own clock, or left out
BackendTimes == {AbsentNum} \cup 0..MaxClock
TimedLists ==
    {<<[object |-> TRUE, id |-> "1", title |-> ABSENT, content |-> ABSENT,
        updatedAt |-> u, createdAt |-> c]>> : u \in BackendTimes, c \in BackendTimes}

\* notes and their timestamps: loaded, created, while time passes
NextTime ==
    \/ LoadNotes
    \/ AddNote("T", ABSENT)
    \/ \E a \in 1..MaxActions : \E data \in TimedLists : RespondList(a, data)
    \/ \E a \in 1..MaxActions : \E data \in CreatedBy(a) : RespondCreated(a, data)
    \/ \E a \in 1..MaxActions : Complete(a)
    \/ Tick

SpecTime == Init /\ [][NextTime]_vars

\* deletions of the held notes, in any overlap, succeeding or failing
NextDel ==
    \/ \E i \in 1..MaxHeld : DeleteNote(HeldNotes[i].id)
    \/ \E a \in 1..MaxActions : RespondDeleted(a)
    \/ \E a \in 1..MaxActions : \E e \in Failures : RespondError(a, e)
    \/ \E a \in 1..MaxActions : Fail(a)
    \/ \E a \in 1..MaxActions : Complete(a)

SpecDel == InitHeld /\ [][NextDel]_vars

\* GET /notes answered with up to MaxList entries: a note with a numeric id
\* and an updatedAt that is no number, a note without id and timestamps, and
\* possibly a first entry that is no object
LoadedEntries ==
    {[object |-> TRUE, id |-> "#1", title |-> "S", content |-> ABSENT,
      updatedAt |-> RawBad, createdAt |-> AbsentNum],
     [object |-> TRUE, id |-> ABSENT, title |-> ABSENT, content |-> ABSENT,
      updatedAt |-> AbsentNum, createdAt |-> AbsentNum]}

LoadedLists ==
    LET objects == SeqsUpTo(LoadedEntries, MaxList - 1)
    IN objects \cup {<<Junk>> \o s : s \in objects}

\* loadNotes alone, on a store that holds notes, while time passes
NextLoad ==
    \/ LoadNotes
    \/ \E a \in 1..MaxActions : \E data \in LoadedLists : RespondList(a, data)
    \/ \E a \in 1..MaxActions : RespondInvalid(a)
    \/ \E a \in 1..MaxActions : Complete(a)
    \/ Tick

SpecLoad == InitHeld /\ [][NextLoad]_vars

\* selections of held notes, of none and of ids no note has, while notes are
\* deleted and deletions fail
NextSel ==
    \/ \E id \in {NULL, ""} \cup {HeldNotes[i].id : i \in 1..MaxHeld} : SelectNote(id)
    \/ DeleteNote(HeldNotes[1].id)
    \/ \E a \in 1..MaxActions : RespondDeleted(a)
    \/ \E a \in 1..MaxActions : \E e \in Failures : RespondError(a, e)
    \/ \E a \in 1..MaxActions : Fail(a)
    \/ \E a \in 1..MaxActions : Complete(a)

SpecSel == InitHeld /\ [][NextSel]_vars

(* the selectors *)

\* s.toLowerCase(), for the titles the sorted stores hold
Lower(s) ==
    CASE s = "A" -> "a"
      [] s = "B" -> "b"
      [] OTHER -> s

\* ta < tb on lower-cased titles: comparison by code units
StrLess(s, t) ==
    LET rank == [x \in {"", "a", "b"} |-> CASE x = "" -> 0 [] x = "a" -> 1 [] OTHER -> 2]
    IN rank[s] < rank[t]

\* n.updatedAt || 0: NaN and 0 are falsy
UpdatedOrZero(n) == IF n.updatedAt = NaN THEN 0 ELSE n.updatedAt

\* faulty variant: the comparator looks at the titles only
CompareTitles(a, b) ==
    LET ta == Lower(a.title)
        tb == Lower(b.title)
    IN IF StrLess(ta, tb) THEN -1 ELSE IF StrLess(tb, ta) THEN 1 ELSE 0

\* the comparator of sortedNotes
Compare(a, b) ==
    LET t == UpdatedOrZero(b) - UpdatedOrZero(a)
        ta == Lower(a.title)
        tb == Lower(b.title)
    IN IF t # 0 THEN t
       ELSE IF StrLess(ta, tb) THEN -1
       ELSE IF StrLess(tb, ta) THEN 1
       ELSE 0

\* Array.prototype.sort is stable: an element goes behind every element that
\* does not compare greater than it
RECURSIVE Sorted(_)
Sorted(q) ==
    IF Len(q) <= 1 THEN q
    ELSE LET front == Sorted(SubSeq(q, 1, Len(q) - 1))
             x == q[Len(q)]
             keep == Cardinality({i \in 1..Len(front) :
                                     \A j \in 1..i : Compare(front[j], x) <= 0})
         IN SubSeq(front, 1, keep) \o <<x>> \o SubSeq(front, keep + 1, Len(front))

\* [...this._state.notes].sort(...)
sortedNotes(notes) == Sorted(notes)

\* a view asks the store for its notes in display order
SortedNotes ==
    /\ trace' = <<[ev |-> "sortedNotes", cb |-> 0, ctx |-> 0, st |-> state,
                   subs |-> subscribers, msg |-> sortedNotes(state.notes)]>>
    /\ UNCHANGED <<useApi, state, subscribers, ls, acts, started, nextUid, clock,
                   mockLs, calls>>

\* the notes a store may hold: up to MaxSort of them, with titles that differ,
\* that differ in case only or that are equal, and with timestamps that are
\* equal, that differ or that are no number
SortTitles == {"a", "A", "B"}
SortTimes == {0, 1, NaN}

InitSorted ==
    /\ useApi \in BOOLEAN
    /\ \E n \in 0..MaxSort :
          \E t \in [1..n -> SortTitles] : \E u \in [1..n -> SortTimes] :
              state = [defaultState EXCEPT
                          !.notes = [i \in 1..n |->
                                        [id |-> ToString(i), title |-> t[i], content |-> "",
                                         updatedAt |-> u[i], createdAt |-> 0]]]
    /\ subscribers = <<>>
    /\ ls = IF useApi THEN NoBlob ELSE [present |-> TRUE, data |-> state]
    /\ acts = [a \in 1..MaxActions |-> IdleAct]
    /\ started = 0
    /\ nextUid = 0
    /\ clock = 1
    /\ trace = <<[ev |-> "init", cb |-> 0, ctx |-> 0, st |-> state, subs |-> <<>>, msg |-> ""]>>
    /\ mockLs = NoMock
    /\ calls = NoCalls

NextSorted ==
    \/ SortedNotes
    \/ \E id \in {NULL, "1"} : SelectNote(id)

SpecSorted == InitSorted /\ [][NextSorted]_vars

\* A view keeps the snapshot getState returned and writes to it.  The
\* snapshot is { ...this._state, notes: [...this._state.notes] }: an object
\* and an array of its own, whose elements are the store's note records.
\* the elements of the copied array: references to the records of notes
Refs(notes) == [i \in 1..Len(notes) |-> i]

\* snap.selectedNoteId = null: the write goes to the object getState created
TamperField ==
    /\ trace' = <<[ev |-> "tamper", cb |-> 0, ctx |-> 0, st |-> state,
                   subs |-> subscribers, msg |-> "field"]>>
    /\ UNCHANGED <<useApi, state, subscribers, ls, acts, started, nextUid, clock,
                   mockLs, calls>>

\* snap.notes.length = 0: the write goes to the array getState created
TamperArray ==
    /\ Len(Refs(state.notes)) > 0
    /\ trace' = <<[ev |-> "tamper", cb |-> 0, ctx |-> 0, st |-> state,
                   subs |-> subscribers, msg |-> "array"]>>
    /\ UNCHANGED <<useApi, state, subscribers, ls, acts, started, nextUid, clock,
                   mockLs, calls>>

\* snap.notes[k].title = v: the write goes to the record the element refers
\* to, which is the record the store holds; no emission follows
TamperRecord(k, v) ==
    /\ k \in 1..Len(Refs(state.notes))
    /\ state' = [state EXCEPT !.notes[Refs(state.notes)[k]].title = v]
    /\ trace' = <<[ev |-> "tamper", cb |-> 0, ctx |-> 0, st |-> state,
                   subs |-> subscribers, msg |-> "record"]>>
    /\ UNCHANGED <<useApi, subscribers, ls, acts, started, nextUid, clock, mockLs, calls>>

\* views that select notes and write to the snapshots they were given
NextSnap ==
    \/ TamperField
    \/ TamperArray
    \/ \E k \in 1..MaxHeld : \E v \in {"X", "Y"} : TamperRecord(k, v)
    \/ \E id \in {NULL, ""} \cup {HeldNotes[i].id : i \in 1..MaxHeld} : SelectNote(id)
    \/ DeleteNote(HeldNotes[1].id)
    \/ \E a \in 1..MaxActions : RespondDeleted(a)
    \/ \E a \in 1..MaxActions : Fail(a)
    \/ \E a \in 1..MaxActions : Complete(a)

SpecSnap == InitHeld /\ [][NextSnap]_vars

\* the local variant through sessions: notes are added, updated and deleted
\* while time passes, and the page is loaded again
NextTrip ==
    \/ AddNote("T", ABSENT)
    \/ UpdateNote(Uid(1), "T2", ABSENT)
    \/ UpdateNote(Uid(1), ABSENT, "C2")
    \/ \E id \in {Uid(1), Uid(2)} : DeleteNote(id)
    \/ \E a \in 1..MaxActions : Fail(a)
    \/ \E a \in 1..MaxActions : Complete(a)
    \/ Tick
    \/ Reload

(* apiFetch *)

\* what fetch resolves with, as far as apiFetch looks at it: resp.ok, the
\* text of the body of a response that is not ok, and whether resp.json()
\* parses the body
HttpResponses ==
    {[ok |-> FALSE, text |-> t, parses |-> FALSE] : t \in {"", "gone"}}
        \cup {[ok |-> TRUE, text |-> "", parses |-> p] : p \in BOOLEAN}

\* apiFetch: throws for a response that is not ok, returns null for a body
\* that does not parse, and the parsed body otherwise
apiFetch(r) ==
    [threw |-> ~r.ok,
     msg |-> IF r.ok THEN ""
             ELSE IF r.text # "" THEN r.text ELSE "Request failed with status 500",
     null |-> r.ok /\ ~r.parses]

\* the continuations of the actions after await apiFetch(...), for the
\* response r whose body, if it parses, is data
ReceiveList(a, r, data) ==
    /\ acts[a].kind = "loadNotes"
    /\ IF apiFetch(r).threw THEN RespondError(a, apiFetch(r).msg)
       ELSE IF apiFetch(r).null THEN RespondInvalid(a)
       ELSE RespondList(a, data)

ReceiveCreated(a, r, data) ==
    /\ acts[a].kind = "addNote"
    /\ IF apiFetch(r).threw THEN RespondError(a, apiFetch(r).msg)
       ELSE RespondCreated(a, IF apiFetch(r).null THEN NullData ELSE data)

ReceiveUpdated(a, r, data) ==
    /\ acts[a].kind = "updateNote"
    /\ IF apiFetch(r).threw THEN RespondError(a, apiFetch(r).msg)
       ELSE RespondUpdated(a, IF apiFetch(r).null THEN NullData ELSE data)

\* deleteNote does not look at the body
ReceiveDeleted(a, r) ==
    /\ acts[a].kind = "deleteNote"
    /\ IF apiFetch(r).threw THEN RespondError(a, apiFetch(r).msg)
       ELSE RespondDeleted(a)

\* invocation a handles response r, whatever its body holds when it parses
Receive(a, r) ==
    \/ \E data \in {d \in ListPayloads : Len(d) <= 1} : ReceiveList(a, r, data)
    \/ \E data \in CreatedBy(a) : ReceiveCreated(a, r, data)
    \/ \E data \in UpdatedBy(a) : ReceiveUpdated(a, r, data)
    \/ ReceiveDeleted(a, r)

InitHttp == InitHeld /\ useApi

\* the remote variant, response by response
NextHttp ==
    \/ LoadNotes
    \/ AddNote("T", ABSENT)
    \/ UpdateNote(HeldNotes[1].id, "T2", ABSENT)
    \/ DeleteNote(HeldNotes[1].id)
    \/ \E a \in 1..MaxActions : \E r \in HttpResponses : Receive(a, r)
    \/ \E a \in 1..MaxActions : Fail(a)
    \/ \E a \in 1..MaxActions : Complete(a)

SpecHttp == InitHttp /\ [][NextHttp]_vars

\* what localStorage may hold under the key of the mock repository when the
\* page is loaded
MockBlobs ==
    {NoMock,
     [kind |-> "garbage", notes |-> <<>>],
     [kind |-> "object", notes |-> <<>>],
     setItem(<<>>),
     setItem(DEFAULT_SEED),
     setItem(<<DEFAULT_SEED[2]>>)}

InitRepo ==
    /\ useApi = FALSE
    /\ state = defaultState
    /\ subscribers = <<>>
    /\ ls = NoBlob
    /\ acts = [a \in 1..MaxActions |-> IdleAct]
    /\ started = 0
    /\ nextUid = 0
    /\ clock = 0
    /\ trace = <<[ev |-> "init", cb |-> 0, ctx |-> 0, st |-> defaultState, subs |-> <<>>, msg |-> ""]>>
    /\ mockLs \in MockBlobs
    /\ calls = NoCalls

RepoIds == {"", "1", "2", "9"}
Patches ==
    {NoPatch, [NoPatch EXCEPT !.title = "P"], [NoPatch EXCEPT !.id = "9"],
     [NoPatch EXCEPT !.createdAt = Iso(9)]}

\* callers of the mock repository that patch and remove notes, in any overlap
NextRepo ==
    \/ \E id \in RepoIds : \E p \in Patches : CallPatch(id, p)
    \/ \E id \in RepoIds : CallRemove(id)
    \/ CallList
    \/ \E c \in 1..MaxCalls : AfterDelay(c, Works)
    \/ Tick

SpecRepo == InitRepo /\ [][NextRepo]_vars

\* callers of the mock repository while localStorage may refuse reads and writes
NextStorage ==
    \/ \E p \in {NoPatch, [NoPatch EXCEPT !.title = "P"]} : CallCreate(p)
    \/ CallPatch("1", [NoPatch EXCEPT !.title = "P"])
    \/ CallRemove("1")
    \/ CallList
    \/ \E c \in 1..MaxCalls : \E io \in StorageOutcomes : AfterDelay(c, io)
    \/ Tick

SpecStorage == InitRepo /\ [][NextStorage]_vars

\* overlapping create, update and remove calls on a working localStorage
NextOverlap ==
    \/ \E p \in {NoPatch, [NoPatch EXCEPT !.title = "P"]} : CallCreate(p)
    \/ \E id \in {"1", generateId(1)} : CallPatch(id, [NoPatch EXCEPT !.title = "Q"])
    \/ \E id \in {"1", generateId(1)} : CallRemove(id)
    \/ \E c \in 1..MaxCalls : AfterDelay(c, Works)
    \/ Tick

SpecOverlap == InitRepo /\ [][NextOverlap]_vars

\* GET /notes answered from what the backend held before any note was added:
\* nothing, or one note of another client
StayLists ==
    {<<>>,
     <<[object |-> TRUE, id |-> "9", title |-> ABSENT, content |-> ABSENT,
        updatedAt |-> AbsentNum, createdAt |-> AbsentNum]>>}

\* notes are added and deleted while lists are loaded, in any overlap
NextStay ==
    \/ LoadNotes
    \/ AddNote("T", ABSENT)
    \/ \E id \in {ServerId(1), ServerId(2), Uid(1)} : DeleteNote(id)
    \/ \E a \in 1..MaxActions : \E data \in StayLists : RespondList(a, data)
    \/ \E a \in 1..MaxActions : \E data \in CreatedBy(a) : RespondCreated(a, data)
    \/ \E a \in 1..MaxActions : RespondDeleted(a)
    \/ \E a \in 1..MaxActions : Fail(a)
    \/ \E a \in 1..MaxActions : Complete(a)

SpecStay == Init /\ [][NextStay]_vars

\* updates and deletions of one held note, in any overlap
NextRace ==
    \/ UpdateNote(HeldNotes[1].id, "T2", ABSENT)
    \/ DeleteNote(HeldNotes[1].id)
    \/ \E a \in 1..MaxActions : \E data \in UpdatedBy(a) : RespondUpdated(a, data)
    \/ \E a \in 1..MaxActions : RespondDeleted(a)
    \/ \E a \in 1..MaxActions : Fail(a)
    \/ \E a \in 1..MaxActions : Complete(a)

SpecRace == InitHeld /\ [][NextRace]_vars

\* the subscriber protocol in the local variant: views that read, select,
\* unsubscribe themselves or unsubscribe another view from inside their
\* callbacks, at most MaxViews of them mounted at a time
InitSubs == Init /\ ~useApi

NextSubs ==
    \/ \E c \in 1..MaxCallbacks :
          /\ Cardinality({i \in 1..Len(subscribers) : subscribers[i] # c}) < MaxViews
          /\ Subscribe(c)
    \/ \E c \in 1..MaxCallbacks : Unsubscribe(c)
    \/ \E id \in {NULL, "U1"} : SelectNote(id)
    \/ LoadNotes
    \/ AddNote("T", ABSENT)
    \/ \E a \in 1..MaxActions : Complete(a)

SpecSubs == InitSubs /\ [][NextSubs]_vars

SpecTrip == InitSubs /\ [][NextTrip]_vars

-----------------------------------------------------------------------------
(* Reading the trace of a segment *)

Range(q) == {q[i] : i \in 1..Len(q)}

Calls(c) == {k \in 1..Len(trace) : trace[k].ev = "call" /\ trace[k].cb = c}

Emits == {k \in 1..Len(trace) : trace[k].ev = "emit"}

Sets == {k \in 1..Len(trace) : trace[k].ev = "set"}

Requests == {k \in 1..Len(trace) : trace[k].ev = "request"}

Unsubs(c) == {k \in 1..Len(trace) : trace[k].ev = "unsub" /\ trace[k].cb = c}

Threw == {k \in 1..Len(trace) : trace[k].ev = "threw"}

\* the segment in which invocation trace[1].cb of kind k merged its result:
\* the continuation after the response, or the invocation itself when local
IsMergeOf(k) ==
    /\ trace[1].ev = "response" \/ (trace[1].ev = k /\ ~useApi)
    /\ acts[trace[1].cb].kind = k
    /\ acts[trace[1].cb].pc = "merged"

Last(q) == q[Len(q)]

IsInvocation ==
    /\ trace[1].ev \in {"loadNotes", "addNote", "updateNote", "deleteNote"}
    /\ Len(trace) > 1

IsSubscribeOf(c) == trace[1].ev = "subscribe" /\ trace[1].cb = c

\* c was subscribed when the segment began (or was subscribed by it) and no
\* unsubscribe function of c was called in it
Stays(c) ==
    /\ c \in Range(trace[1].subs) \/ IsSubscribeOf(c)
    /\ Unsubs(c) = {}

RECURSIVE Pick(_, _)
\* the states of the events of tr whose positions are in K, in order
Pick(K, n) ==
    IF n = 0 THEN <<>>
    ELSE IF n \in K THEN Append(Pick(K, n - 1), trace[n].st) ELSE Pick(K, n - 1)

-----------------------------------------------------------------------------
(* C1: in every reachable state, selectedNoteId is null or the id of a record *)
(* of notes.                                                                  *)
C1_SelectedNoteExists ==
    state.selectedNoteId = NULL \/ Exists(state.notes, state.selectedNoteId)

(* C2: in every reachable state, no two records of notes have the same id. *)
C2_UniqueIds ==
    \A i, j \in 1..Len(state.notes) :
        i # j => state.notes[i].id # state.notes[j].id

(* C3: loading is true in every state in which the backend request of at least *)
(* one action is in flight.                                                    *)
C3_LoadingWhileInFlight ==
    (\E a \in 1..MaxActions : acts[a].pc = "io") => state.loading

(* C4: an invocation that passes validation first sets loading = true and     *)
(* error = null, with notes and selectedNoteId as they were, and every        *)
(* subscriber is called with that state before the request is issued and      *)
(* before any other state change.                                             *)
C4_EntryFirst ==
    IsInvocation =>
        /\ trace[2].ev = "set"
        /\ trace[2].st = [trace[1].st EXCEPT !.loading = TRUE, !.error = NULL]
        /\ trace[3].ev = "emit"
        /\ \A c \in Range(trace[1].subs) :
              \E k \in Calls(c) :
                 /\ trace[k].st = trace[2].st
                 /\ \A j \in 1..(k - 1) : j \notin Requests /\ (j \in Sets => j = 2)
        /\ \A r \in Requests : r > 3

C4_Witness ==
    /\ IsInvocation
    /\ trace[1].ev = "updateNote"
    /\ trace[1].st.error # NULL
    /\ trace[1].st.selectedNoteId # NULL
    /\ Requests # {}
    /\ Calls(1) # {}

(* C5: when the backend call of an action fails, error becomes the failure's  *)
(* message ('Unknown error' for a failure that carries none) and no state     *)
(* change of the failure's handling touches notes or selectedNoteId.          *)
C5_FailureKeepsNotes ==
    trace[1].ev = "failed" =>
        /\ state.error = (IF trace[1].msg # "" THEN trace[1].msg ELSE "Unknown error")
        /\ \A k \in 1..Len(trace) :
              /\ trace[k].st.notes = trace[1].st.notes
              /\ trace[k].st.selectedNoteId = trace[1].st.selectedNoteId
        /\ state.notes = trace[1].st.notes
        /\ state.selectedNoteId = trace[1].st.selectedNoteId

C5_Witness ==
    /\ trace[1].ev = "failed"
    /\ trace[1].msg = "Request failed with status 500"
    /\ state.error = "Request failed with status 500"
    /\ Len(state.notes) > 0
    /\ state.selectedNoteId # NULL

(* C7: an invocation that passes validation makes at least two and at most    *)
(* three emissions: never more than three, and two or three once settled.     *)
C7_EmissionsPerAction ==
    \A a \in 1..MaxActions :
        /\ acts[a].pc \in InFlight => acts[a].emits \in 1..2
        /\ acts[a].pc = "done" => acts[a].emits \in 2..3

C7_Witness ==
    /\ started = MaxActions
    /\ \A a \in 1..MaxActions : acts[a].pc = "done" /\ acts[a].emits = 3

(* C6: every action that set loading = true ends: its last state change sets  *)
(* loading = false and then its promise settles, whether the backend call     *)
(* succeeded or failed; and when no action is in flight after at least one    *)
(* ran, loading is false.                                                     *)
C6_LoadingReset ==
    /\ \A a \in 1..MaxActions : (acts[a].pc \in InFlight) ~> (acts[a].pc = "done")
    /\ [](trace[1].ev \in {"complete", "failed"} =>
            /\ acts[trace[1].cb].pc = "done"
            /\ Sets # {}
            /\ LET last == CHOOSE k \in Sets : \A j \in Sets : j <= k
               IN /\ trace[last].st = [trace[last - 1].st EXCEPT !.loading = FALSE]
                  /\ state = trace[last].st)
    /\ []((/\ \A a \in 1..MaxActions : acts[a].pc \notin InFlight
           /\ \E a \in 1..MaxActions : acts[a].pc = "done") => ~state.loading)

C6_Witness ==
    /\ started = MaxActions
    /\ \A a \in 1..MaxActions : acts[a].pc = "done"
    /\ trace[1].ev = "failed"
    /\ ~state.loading

(* C8: every subscriber is called exactly once per state change, with the     *)
(* state that change produced, in the order the changes were applied: the     *)
(* states delivered to a subscriber in a segment are the states the segment   *)
(* set, in order.                                                             *)
C8_OncePerChange ==
    \A c \in 1..MaxCallbacks :
        (Stays(c) /\ ~IsSubscribeOf(c)) => Pick(Calls(c), Len(trace)) = Pick(Sets, Len(trace))

(* C9: subscribe(callback) calls callback at once with the current snapshot,  *)
(* before anything else happens, and from then on every emission calls it     *)
(* once with the state the store holds at that moment, until an unsubscribe   *)
(* function of it is called (or the page is left).                            *)
C9_SubscribeThenEveryEmission ==
    /\ trace[1].ev = "subscribe" =>
          /\ Len(trace) >= 2
          /\ trace[2].ev = "call"
          /\ trace[2].cb = trace[1].cb
          /\ trace[2].st = trace[1].st
          /\ trace[1].cb \in Range(subscribers) \/ Unsubs(trace[1].cb) # {}
    /\ \A c \in 1..MaxCallbacks :
          /\ Stays(c) =>
                /\ c \in Range(subscribers)
                /\ Cardinality(Calls(c))
                      = Cardinality(Emits) + (IF IsSubscribeOf(c) THEN 1 ELSE 0)
          /\ \A k \in Calls(c) : trace[k].st = trace[k - 1].st

C9_Witness ==
    /\ trace[1].ev = "subscribe"
    /\ trace[1].st.selectedNoteId # NULL
    /\ Len(subscribers) = 2
    /\ Cardinality(Calls(trace[1].cb)) = 1

(* C10: once an unsubscribe function of a callback was called, the callback   *)
(* is not called again; when it is called from inside a callback during an    *)
(* emission, every callback that stays subscribed is still called once for    *)
(* each emission of the segment.                                              *)
C10_UnsubscribeIsSafe ==
    \A c \in 1..MaxCallbacks :
        /\ \A u \in Unsubs(c) : \A k \in Calls(c) : k < u
        /\ (c \notin Range(trace[1].subs) /\ ~IsSubscribeOf(c)) => Calls(c) = {}
        /\ (Unsubs(c) # {} /\ trace[1].ev # "subscribe") => c \notin Range(subscribers)
        /\ (\E u \in Unsubs(c) : trace[u].ctx # 0) =>
              \A d \in 1..MaxCallbacks :
                  (d # c /\ Stays(d)) =>
                      Cardinality(Calls(d))
                          = Cardinality(Emits) + (IF IsSubscribeOf(d) THEN 1 ELSE 0)

C10_Witness ==
    \E c \in 1..MaxCallbacks : \E u \in Unsubs(c) :
        /\ trace[u].ctx = c
        /\ \E d \in Range(subscribers) : \E k \in Calls(d) : k > u

(* C11: when a subscriber callback throws, during an emission or during the   *)
(* immediate call of subscribe, every callback that stays subscribed is       *)
(* still called once for each emission of the segment, the store holds the    *)
(* state its code set last, and the action that emitted goes on: an           *)
(* invocation reaches its await, a completion settles with loading = false.   *)
C11_ThrowIsContained ==
    Threw # {} =>
        /\ \A d \in 1..MaxCallbacks :
              Stays(d) =>
                  /\ d \in Range(subscribers)
                  /\ Cardinality(Calls(d))
                        = Cardinality(Emits) + (IF IsSubscribeOf(d) THEN 1 ELSE 0)
        /\ \A k \in Threw : \A j \in k..Len(trace) : j \notin Sets => trace[j].st = trace[j - 1].st
        /\ state = trace[Len(trace)].st
        /\ trace[1].ev \in {"loadNotes", "addNote"} =>
              /\ acts[trace[1].cb].pc \in InFlight
              /\ acts[trace[1].cb].emits = 2
        /\ trace[1].ev = "complete" =>
              /\ acts[trace[1].cb].pc = "done"
              /\ acts[trace[1].cb].emits = 3
              /\ ~state.loading

C11_Witness ==
    /\ trace[1].ev = "complete"
    /\ \E k \in Threw : \E d \in Range(subscribers) :
          d # trace[k].cb /\ \E j \in Calls(d) : j > k

(* C12: no action method throws to its caller or returns a promise that       *)
(* rejects, whatever its arguments: no invocation ends rejected.              *)
C12_NothingEscapes ==
    \A a \in 1..MaxActions : acts[a].pc # "rejected"

(* C13: updateNote and deleteNote called with a falsy id fail before          *)
(* _runAsync is entered: the segment sets no state, emits nothing, calls no   *)
(* subscriber and issues no request, notes, selectedNoteId, loading and error *)
(* are what they were, and the promise is rejected.                           *)
C13_FalsyIdFailsFirst ==
    (trace[1].ev \in {"updateNote", "deleteNote"} /\ trace[1].msg \in {NULL, ""}) =>
        /\ Len(trace) = 1
        /\ state = trace[1].st
        /\ acts[trace[1].cb].pc = "rejected"
        /\ acts[trace[1].cb].emits = 0

C13_Witness ==
    /\ trace[1].ev = "deleteNote"
    /\ trace[1].msg = NULL
    /\ subscribers = <<1>>
    /\ state.loading
    /\ state.error # NULL
    /\ Len(state.notes) > 0

C16_ReplacedInPlace ==
    IsMergeOf("updateNote") =>
        LET a == trace[1].cb
            before == trace[1].st
        IN /\ Len(state.notes) = Len(before.notes)
           /\ state.selectedNoteId = before.selectedNoteId
           /\ \A i \in 1..Len(before.notes) :
                 IF before.notes[i].id = acts[a].id
                 THEN /\ state.notes[i].id = acts[a].id
                      /\ state.notes[i].title = acts[a].title
                      /\ state.notes[i].content = acts[a].content
                      /\ state.notes[i].updatedAt = clock
                      /\ state.notes[i].createdAt = before.notes[i].createdAt
                 ELSE state.notes[i] = before.notes[i]

C16_Witness ==
    /\ IsMergeOf("updateNote")
    /\ state.selectedNoteId = HeldNotes[2].id
    /\ state.notes[1].title = "T2"
    /\ state.notes[1].updatedAt = 1
    /\ state.notes[2] = HeldNotes[2]

(* C17: an update that gives only the title (only the content) leaves the     *)
(* other field of the record at the value it has when the update is merged,   *)
(* so two overlapping updates of one note, one of the title and one of the    *)
(* content, end with both new values.                                         *)
C17_OtherFieldKept ==
    IsMergeOf("updateNote") =>
        LET a == trace[1].cb
            before == trace[1].st
        IN \A i \in 1..Len(before.notes) :
              before.notes[i].id = acts[a].id =>
                  /\ acts[a].given = "title" => state.notes[i].content = before.notes[i].content
                  /\ acts[a].given = "content" => state.notes[i].title = before.notes[i].title

(* C18: no updateNote, whatever the backend answers, changes the id or the    *)
(* createdAt of a record of notes.                                            *)
C18_IdAndCreatedAtFixed ==
    IsMergeOf("updateNote") =>
        \A i \in 1..Len(trace[1].st.notes) :
            /\ state.notes[i].id = trace[1].st.notes[i].id
            /\ state.notes[i].createdAt = trace[1].st.notes[i].createdAt

(* C19: in every reachable state every record of notes has                    *)
(* createdAt <= updatedAt.                                                    *)
C19_CreatedBeforeUpdated ==
    \A i \in 1..Len(state.notes) : state.notes[i].createdAt <= state.notes[i].updatedAt

(* C20: when deleteNote(id) succeeds, its merge leaves notes without any      *)
(* record of that id and with all others in order; if id was selected the     *)
(* selection moves to the first remaining record, or to null when none        *)
(* remains; otherwise the selection is unchanged.                             *)
C20_DeletedAndReselected ==
    IsMergeOf("deleteNote") =>
        LET id == acts[trace[1].cb].id
            before == trace[1].st
        IN /\ state.notes = SelectSeq(before.notes, LAMBDA n : n.id # id)
           /\ ~Exists(state.notes, id)
           /\ state.selectedNoteId =
                 IF before.selectedNoteId # id THEN before.selectedNoteId
                 ELSE IF Len(state.notes) > 0 THEN state.notes[1].id
                 ELSE NULL

C20_Witness ==
    /\ IsMergeOf("deleteNote")
    /\ trace[1].st.selectedNoteId = acts[trace[1].cb].id
    /\ Len(trace[1].st.notes) = 2
    /\ state.selectedNoteId = state.notes[1].id

(* C21: updateNote or deleteNote with a truthy id that matches no record      *)
(* issues no request and changes neither notes nor selectedNoteId; it ends:   *)
(* its failure is handled, which sets error to 'Note not found', leaves notes *)
(* and selectedNoteId as they were and sets loading = false.                  *)
C21_MissingIdFails ==
    /\ \A a \in 1..MaxActions : (acts[a].pc = "failing") ~> (acts[a].pc = "done")
    /\ []((/\ trace[1].ev \in {"updateNote", "deleteNote"}
            /\ ~Falsy(trace[1].msg)
            /\ ~Exists(trace[1].st.notes, trace[1].msg)) =>
              /\ acts[trace[1].cb].pc = "failing"
              /\ Requests = {}
              /\ state.notes = trace[1].st.notes
              /\ state.selectedNoteId = trace[1].st.selectedNoteId)
    /\ [][\A a \in 1..MaxActions :
            (acts[a].pc = "failing" /\ acts'[a].pc # "failing") =>
                /\ acts'[a].pc = "done"
                /\ state'.error = "Note not found"
                /\ state'.error # NULL
                /\ state'.notes = state.notes
                /\ state'.selectedNoteId = state.selectedNoteId
                /\ ~state'.loading]_vars

C21_Witness ==
    /\ trace[1].ev = "failed"
    /\ trace[1].msg = "Note not found"
    /\ acts[trace[1].cb].pc = "done"
    /\ Len(state.notes) > 0
    /\ state.selectedNoteId # NULL
    /\ state.error # NULL
    /\ ~state.loading

(* C22: selectNote(id) with a non-null id that matches no record leaves       *)
(* selectedNoteId unchanged and sets error to a non-null value;               *)
(* selectNote(null) sets selectedNoteId to null from any state and leaves     *)
(* error as it was; selectNote(id) with an id present in notes sets           *)
(* selectedNoteId to id.  None of them changes notes or loading.              *)
C22_SelectNote ==
    trace[1].ev = "selectNote" =>
        LET id == trace[1].msg
            before == trace[1].st
        IN /\ state.notes = before.notes
           /\ state.loading = before.loading
           /\ id = NULL =>
                 /\ state.selectedNoteId = NULL
                 /\ state.error = before.error
           /\ (id # NULL /\ ~Exists(before.notes, id)) =>
                 /\ state.selectedNoteId = before.selectedNoteId
                 /\ state.error # NULL
                 /\ state.error = "Note not found"
           /\ (id # NULL /\ Exists(before.notes, id)) =>
                 /\ state.selectedNoteId = id
                 /\ state.error = before.error

C22_Witness ==
    /\ trace[1].ev = "selectNote"
    /\ trace[1].msg = HeldNotes[1].id
    /\ ~Exists(trace[1].st.notes, trace[1].msg)
    /\ trace[1].st.selectedNoteId = HeldNotes[2].id
    /\ trace[1].st.error = NULL
    /\ state.error # NULL

C25_OrderIndependent ==
    trace[1].ev = "sortedNotes" =>
        LET n == Len(state.notes)
        IN \A p \in [1..n -> 1..n] :
              (\A i, j \in 1..n : i # j => p[i] # p[j]) =>
                  sortedNotes([i \in 1..n |-> state.notes[p[i]]]) = trace[1].msg

(* C26: a snapshot returned by getState is immutable with respect to the      *)
(* store: no write a caller makes to the snapshot, to its notes sequence or   *)
(* to a note record reached through it changes the state the store holds      *)
(* (and so the snapshots returned later).                                     *)
C26_SnapshotIsolated ==
    trace[1].ev = "tamper" => state = trace[1].st

C28_ErrorOfLastAction ==
    (/\ trace[1].ev \in {"complete", "failed"}
     /\ \A a \in 1..MaxActions : acts[a].pc \notin InFlight) =>
        state.error = (IF trace[1].ev = "failed" THEN MessageOf(trace[1].msg) ELSE NULL)

(* C29: in the remote variant, an action whose HTTP response is non-2xx, or   *)
(* whose response body cannot be parsed as JSON, fails: the step that handles *)
(* the response settles the action with error non-null and adds, replaces or  *)
(* removes no record of notes; for loadNotes, addNote, updateNote and         *)
(* deleteNote alike.                                                          *)
C29_BadResponseFails ==
    [][\A a \in 1..MaxActions : \A r \in HttpResponses :
          ((~r.ok \/ ~r.parses) /\ Receive(a, r)) =>
              /\ acts'[a].pc = "done"
              /\ state'.error # NULL
              /\ state'.notes = state.notes]_vars

C31_PatchKeepsIdentity ==
    [][\A c \in 1..MaxCalls :
          (/\ calls[c].op = "patch"
           /\ calls[c].pc = "waiting"
           /\ calls'[c].pc = "resolved") =>
              LET had == IF mockLs.kind = "array" THEN mockLs.notes ELSE DEFAULT_SEED
                  idx == findIndex(had, calls[c].id)
                  p == calls[c].payload
                  new == calls'[c].result
              IN /\ new.id = had[idx].id
                 /\ new.createdAt = had[idx].createdAt
                 /\ new.title = (IF p.title # ABSENT THEN p.title ELSE had[idx].title)
                 /\ new.content = (IF p.content # ABSENT THEN p.content ELSE had[idx].content)
                 /\ new.updatedAt = Iso(clock)
                 /\ mockLs' = [kind |-> "array", notes |-> [had EXCEPT ![idx] = new]]]_vars

(* C32: every operation of the Local persistence backend whose storage read   *)
(* fails is rejected, and a create, update or remove that resolved is         *)
(* reflected by the next list: the list holds the created or updated record,  *)
(* and no note with the id of the removed one.                                *)
C32_StorageFailureReported ==
    [][\A c \in 1..MaxCalls :
          /\ \A io \in StorageOutcomes :
                (/\ ~io.read
                  /\ calls[c].op \in {"list", "create"}
                  /\ AfterDelay(c, io)) => calls'[c].pc = "rejected"
          /\ (calls[c].pc = "waiting" /\ calls'[c].pc = "resolved") =>
                LET next == list(mockLs', Works).listed
                IN /\ calls[c].op \in {"create", "patch"} =>
                         \E i \in 1..Len(next) : next[i] = calls'[c].result
                   /\ calls[c].op = "remove" => calls'[c].result.id \notin Ids(next)]_vars

C36_StartsIdle ==
    trace[1].ev = "reload" => (state.loading = FALSE /\ state.error = NULL)

(* C37: selectNote changes neither notes nor loading and sends no request; a  *)
(* selectNote of null or of an id that notes holds leaves error as it was,    *)
(* and an error that is recorded is cleared only by the start of a loadNotes, *)
(* addNote, updateNote or deleteNote.                                         *)
C37_SelectNoteFrame ==
    /\ [](trace[1].ev = "selectNote" =>
            /\ state.notes = trace[1].st.notes
            /\ state.loading = trace[1].st.loading
            /\ Requests = {}
            /\ \A k \in 1..Len(trace) : trace[k].ev \notin {"request", "response", "failed"}
            /\ (trace[1].msg = NULL \/ Exists(trace[1].st.notes, trace[1].msg)) =>
                  state.error = trace[1].st.error)
    /\ [][(state.error # NULL /\ state'.error = NULL) =>
              trace'[1].ev \in {"loadNotes", "addNote", "updateNote", "deleteNote"}]_vars

C37_Witness ==
    /\ trace[1].ev = "selectNote"
    /\ trace[1].msg # NULL
    /\ Exists(trace[1].st.notes, trace[1].msg)
    /\ trace[1].st.error = "Note not found"
    /\ state.error = "Note not found"
    /\ state.selectedNoteId = trace[1].msg
    /\ \E a \in 1..MaxActions : acts[a].pc \notin {"idle", "done"}

(* C38: an updateNote(id, ...) whose response arrives when notes holds no     *)
(* record with that id any more (a deleteNote removed it meanwhile) leaves    *)
(* notes and error as they were when it merges, and its promise resolves to   *)
(* the updated record all the same; no step of an updateNote brings the id    *)
(* back into notes.                                                           *)
C38_UpdateAfterDelete ==
    [][\A a \in 1..MaxActions :
          acts[a].kind = "updateNote" =>
              /\ (/\ acts[a].pc = "io"
                  /\ acts'[a].pc = "merged"
                  /\ ~Exists(state.notes, acts[a].id)) =>
                     /\ state'.notes = state.notes
                     /\ state'.error = state.error
                     /\ acts'[a].result.id = acts[a].id
                     /\ acts'[a].result.title = acts[a].title
              /\ (acts[a].pc = "merged" /\ acts'[a].pc = "done") =>
                     /\ Last(trace').ev = "return"
                     /\ Last(trace').msg.value = acts[a].result
                     /\ Last(trace').msg.value # NoNote
                     /\ state'.error = state.error
                     /\ state'.notes = state.notes
              /\ (acts'[a] # acts[a] /\ ~Exists(state.notes, acts[a].id)) =>
                     ~Exists(state'.notes, acts[a].id)]_vars

C38_Witness ==
    /\ trace[1].ev = "response"
    /\ IsMergeOf("updateNote")
    /\ acts[trace[1].cb].result.title = "T2"
    /\ ~Exists(trace[1].st.notes, HeldNotes[1].id)
    /\ ~Exists(state.notes, HeldNotes[1].id)
    /\ state.error = NULL
    /\ \E b \in 1..MaxActions : acts[b].pc = "done"

(* C39: a record that addNote has put into notes stays in notes until a       *)
(* deleteNote for its id merges: no other step (a loadNotes that was in       *)
(* flight when the note was added, or any other action) takes it out.         *)
C39_CreatedStays ==
    [][\A i \in 1..Len(state.notes) :
          (state.notes[i].id # "9" /\ ~Exists(state'.notes, state.notes[i].id)) =>
              \E a \in 1..MaxActions :
                  /\ acts'[a].kind = "deleteNote"
                  /\ acts'[a].id = state.notes[i].id
                  /\ acts'[a].pc = "merged"
                  /\ acts[a].pc # "merged"]_vars

(* C40: the value an action resolves to matches what it did to the state:     *)
(* addNote resolves to the record it appended to notes, and to null exactly   *)
(* when it failed; updateNote resolves to the record stored under its id when *)
(* it resolves, and to null exactly when it failed; deleteNote resolves to    *)
(* true exactly when it removed a record from notes, and to false otherwise.  *)
C40_ReturnMatchesState ==
    [][\A a \in 1..MaxActions :
          LET merges == acts'[a].pc = "merged" /\ acts[a].pc # "merged"
              settles == acts[a].pc \in InFlight /\ acts'[a].pc = "done"
              ok == acts[a].pc = "merged"
              value == Last(trace').msg.value
          IN /\ (acts'[a].kind = "addNote" /\ merges) =>
                    state'.notes = Append(state.notes, acts'[a].result)
             /\ (acts[a].kind = "addNote" /\ settles) =>
                    value = (IF ok THEN acts[a].result ELSE NoNote)
             /\ (acts[a].kind = "updateNote" /\ settles /\ ok) =>
                    /\ value = acts[a].result
                    /\ \E i \in 1..Len(state'.notes) :
                          /\ state'.notes[i].id = acts[a].id
                          /\ state'.notes[i] = value
             /\ (acts[a].kind = "updateNote" /\ settles /\ ~ok) => value = NoNote
             /\ (acts'[a].kind = "deleteNote" /\ merges) =>
                    /\ Exists(state.notes, acts'[a].id)
                    /\ ~Exists(state'.notes, acts'[a].id)
             /\ (acts[a].kind = "deleteNote" /\ settles) => value = ok]_vars

====
